---- MODULE Spec2Model ----
(***************************************************************************)
(* A model of three parts of the LabSound runtime core:                    *)
(*   - the main-thread dispatch queue   (src/src/WTF/wtf/MainThread.cpp)   *)
(*   - AudioNode reference counting and per-quantum processing             *)
(*                                (src/src/Modules/webaudio/AudioNode.cpp) *)
(*   - ChannelMergerNode channel negotiation and merge                     *)
(*                                (src/src/core/ChannelMergerNode.cpp)     *)
(* Each part has its own next-state relation and specification; the        *)
(* variables of the other parts stay at their initial values.              *)
(***************************************************************************)
EXTENDS Integers, Sequences, FiniteSets, TLC

(***************************************************************************)
(* Bounds of the model.                                                    *)
(***************************************************************************)
MaxAppends == 3          \* entries appended to the queue in one behaviour
MaxExtraRefs == 1        \* references held at a time beyond one normal reference per node
MaxUnderflow == 1         \* derefs of a counter below zero
MaxQuanta == 3           \* render quanta the context advances through
MaxPullDepth == 4        \* nesting of processIfNecessary calls in one pull
MaxInputChannels == 3    \* channels of the bus of a merger input

(***************************************************************************)
(* Threads and the identities of the dispatched calls.                     *)
(***************************************************************************)
Workers == {1, 2}
\* The (function, context) pairs the callers use: one function, two contexts.
Identities == {<<1, 1>>, <<1, 2>>}
NoFlag == 0            \* syncFlag = 0: the entry carries no ThreadCondition
MainThread == 3        \* the thread for which isMainThread() holds

\* maxRunLoopSuspensionTime = 0.05 s, in units of 10 ms.
maxRunLoopSuspensionTime == 5
\* How long one dispatched function may run, in units of 10 ms.
Durations == {0, 3}

VARIABLES
    \* ---- MainThread.cpp ----
    functionQueue,     \* std::deque<FunctionWithContext>
    callbacksPaused,   \* static bool callbacksPaused
    queueMutex,        \* mainThreadFunctionQueueMutex(): the set of its holders
    scheduled,         \* a scheduleDispatchFunctionsOnMainThread() request is outstanding
    mainPc,            \* where the main thread is inside dispatchFunctionsFromMainThread
    invocation,        \* the local FunctionWithContext invocation of the drain
    elapsed,           \* currentTime() - startTime of the running drain
    workerPc,          \* where each worker thread is inside its call
    \* ---- history variables of the dispatch queue ----
    appended,          \* number of entries ever pushed (the next entry's seq - 1)
    execLog,           \* seq of the entries whose function has finished, in order
    cancelled,         \* seq of the entries erased by cancelCallOnMainThread
    waitSeq,           \* seq of the entry each worker is waiting for
    drain,             \* what the running (or last) drain has seen and done
    lastOp             \* the operation that produced the current state

dqVars == <<functionQueue, callbacksPaused, queueMutex, scheduled, mainPc, invocation,
            elapsed, workerPc, appended, execLog, cancelled, waitSeq, drain, lastOp>>

VARIABLES
    \* ---- AudioNode.cpp: reference counting ----
    normalRefCount,        \* m_normalRefCount of each node
    connectionRefCount,    \* m_connectionRefCount of each node
    isMarkedForDeletion,   \* m_isMarkedForDeletion of each node
    isDisabled,            \* m_isDisabled of each node
    nodeType,              \* m_nodeType of each node
    outputEnabled,         \* whether the outputs of each node are enabled (not dormant)
    connections,           \* <<source, outputIndex, destination, inputIndex>> of each connection
    ec,                    \* the ExceptionCode the last connect / disconnect reported
    crashed,               \* the process has faulted
    \* ---- history variables of the nodes ----
    heldConnections,       \* connection references each node's external callers hold
    markCount,             \* how often the disconnect-and-mark step ran on each node
    lastNodeOp             \* the node operation that produced the current state

nodeVars == <<normalRefCount, connectionRefCount, isMarkedForDeletion, isDisabled, nodeType,
              outputEnabled, connections, ec, crashed, heldConnections, markCount,
              lastNodeOp>>

VARIABLES
    \* ---- AudioNode.cpp: per-quantum processing ----
    currentSampleFrame,    \* the render context's currentSampleFrame()
    isInitialized,         \* m_isInitialized of each node
    lastProcessingTime,    \* m_lastProcessingTime of each node, in frames
    lastNonSilentTime,     \* m_lastNonSilentTime of each node, in frames
    outputSilent,          \* the silent flag of the bus of each node's outputs
    upstream,              \* the nodes whose outputs are connected to each node's inputs
    feedSilent,            \* the silent flag of the bus that feeds node 1 from outside
    tailTime,              \* tailTime() of each node, in frames
    latencyTime,           \* latencyTime() of each node, in frames
    \* ---- history variables of the rendering ----
    stepsThisQuantum,      \* how often each node processed or substituted silence at this time
    pullsThisQuantum,      \* how often each node pulled its inputs at this time
    lastStep,              \* what each node did when it last ran: "process" or "silence"
    inputsWereSilent,      \* whether each node's inputs were silent when it last ran
    lastLoudEnd,           \* end of the last quantum in which each node ran on non-silent inputs
    pullOverflow,          \* the pull recursion went deeper than MaxPullDepth
    lastRenderOp           \* the rendering operation that produced the current state

renderVars == <<currentSampleFrame, isInitialized, lastProcessingTime, lastNonSilentTime,
                outputSilent, upstream, feedSilent, tailTime, latencyTime, stepsThisQuantum,
                pullsThisQuantum, lastStep, inputsWereSilent, lastLoudEnd, pullOverflow,
                lastRenderOp>>

VARIABLES
    \* ---- ChannelMergerNode.cpp ----
    inputConnected,                 \* isConnected() of each input of the merger
    inputChannels,                  \* numberOfChannels() of the bus of each input
    desiredNumberOfOutputChannels,  \* m_desiredNumberOfOutputChannels
    pendingNumberOfChannels,        \* the count last given to output->setNumberOfChannels
    outputNumberOfChannels,         \* output->numberOfChannels(): the count of the output bus
    negotiated,                     \* checkNumberOfChannelsForInput ran after the last connectivity change
    lastMergerOp                    \* the merger operation that produced the current state

mergerVars == <<inputConnected, inputChannels, desiredNumberOfOutputChannels,
                pendingNumberOfChannels, outputNumberOfChannels, negotiated, lastMergerOp>>

VARIABLES
    \* ---- the locks of the context ----
    graphLock,     \* the thread that holds the graph lock (a ContextGraphLock), or NoThread
    renderLock     \* the thread that holds the render lock (a ContextRenderLock), or NoThread

lockVars == <<graphLock, renderLock>>

notDqVars == <<nodeVars, renderVars, mergerVars, lockVars>>
notNodeVars == <<dqVars, renderVars, mergerVars, lockVars>>
notRenderVars == <<dqVars, nodeVars, mergerVars, lockVars>>
notMergerVars == <<dqVars, nodeVars, renderVars, lockVars>>
notLockVars == <<dqVars, nodeVars, renderVars, mergerVars>>

vars == <<dqVars, nodeVars, renderVars, mergerVars, lockVars>>

(***************************************************************************)
(* FunctionWithContext                                                     *)
(***************************************************************************)
FunctionWithContext(f, c, flag) ==
    [function |-> f, context |-> c, syncFlag |-> flag]

\* A queue slot: the FunctionWithContext and, for the history variables, the
\* position at which it was appended.
Entry(f, c, flag, n) ==
    [function |-> f, context |-> c, syncFlag |-> flag, seq |-> n]

NullInvocation == Entry(0, 0, NoFlag, 0)

\* An equality on (function, context) alone.
EqIgnoringSyncFlag(a, b) ==
    /\ a.function = b.function
    /\ a.context = b.context

\* An equality on the function alone.
EqFunctionOnly(a, b) ==
    /\ a.function = b.function
    /\ a.syncFlag = b.syncFlag

\* FunctionWithContext::operator==
FunctionWithContextEq(a, b) ==
    /\ a.function = b.function
    /\ a.context = b.context
    /\ a.syncFlag = b.syncFlag

\* std::remove_if + erase with FunctionWithContextFinder(m)
RemoveIf(q, m) ==
    SelectSeq(q, LAMBDA o : ~FunctionWithContextEq(o, m))

SeqsOf(q) == {q[i].seq : i \in 1..Len(q)}

\* The wrong end of the deque.
QueueBack(q) == q[Len(q)]

\* functionQueue().front()
QueueFront(q) == Head(q)

\* functionQueue().pop_front()
PopFront(q) == Tail(q)

(***************************************************************************)
(* ThreadCondition                                                         *)
(***************************************************************************)
\* A wait that does not block.
CondWaitNoBlock(pcs, w) == [pcs EXCEPT ![w] = "woken"]

\* syncFlag.wait(mutex): the caller blocks until the condition is signalled.
CondWait(pcs, w) == [pcs EXCEPT ![w] = "waiting"]

\* syncFlag->signal(): wakes the thread waiting on this condition, if any.
CondSignal(pcs, flag) ==
    [w \in Workers |-> IF w = flag /\ pcs[w] = "waiting" THEN "woken" ELSE pcs[w]]

\* The lock is dropped between push_back and wait.
MutexReleasedAfterPush(w) == {}

\* MutexLocker locker(functionQueueMutex) stays in scope from push_back to wait.
MutexAfterPush(w) == {w}

(***************************************************************************)
(* History helpers                                                         *)
(***************************************************************************)
NoDrain == [startNonEmpty |-> FALSE, lockNonEmpty |-> FALSE, locked |-> FALSE, executed |-> 0]

\* The operation that produced the current state: its name, the identity it
\* was called with, the queue it found, the entry it is about, and, for the
\* return of a drain, what that drain saw and did.
Op(name, f, c, before, n, d) ==
    [op |-> name, function |-> f, context |-> c, before |-> before, seq |-> n, drain |-> d]

OtherOp == Op("other", 0, 0, << >>, 0, NoDrain)

CapElapsed(e) == IF e > maxRunLoopSuspensionTime THEN maxRunLoopSuspensionTime + 1 ELSE e

\* The comparison never succeeds.
BudgetNeverExceeded(e) == FALSE

\* currentTime() - startTime > maxRunLoopSuspensionTime
BudgetExceeded(e) == e > maxRunLoopSuspensionTime

(***************************************************************************)
(* Initial state                                                           *)
(***************************************************************************)
DqInit ==
    /\ functionQueue = << >>
    /\ callbacksPaused = FALSE
    /\ queueMutex = {}
    /\ scheduled = FALSE
    /\ mainPc = "idle"
    /\ invocation = NullInvocation
    /\ elapsed = 0
    /\ workerPc = [w \in Workers |-> "idle"]
    /\ appended = 0
    /\ execLog = << >>
    /\ cancelled = {}
    /\ waitSeq = [w \in Workers |-> 0]
    /\ drain = NoDrain
    /\ lastOp = OtherOp

(***************************************************************************)
(* callOnMainThread, from a worker thread                                  *)
(***************************************************************************)
\* No request is taken to be needed.
NeverNeedToSchedule(q) == FALSE

\* needToSchedule = functionQueue().size() == 0
NeedToSchedule(q) == Len(q) = 0

\* The critical section: needToSchedule is read and the entry pushed.
CallOnMainThread(w, f, c) ==
    /\ workerPc[w] = "idle"
    /\ queueMutex = {}
    /\ appended < MaxAppends
    /\ LET needToSchedule == NeedToSchedule(functionQueue)
       IN workerPc' = [workerPc EXCEPT ![w] = IF needToSchedule THEN "schedule" ELSE "idle"]
    /\ functionQueue' = Append(functionQueue, Entry(f, c, NoFlag, appended + 1))
    /\ appended' = appended + 1
    /\ lastOp' = OtherOp
    /\ UNCHANGED <<callbacksPaused, queueMutex, scheduled, mainPc, invocation, elapsed,
                   execLog, cancelled, waitSeq, drain>>
    /\ UNCHANGED notDqVars

\* After the lock is released: if (needToSchedule) scheduleDispatchFunctionsOnMainThread()
CallOnMainThreadSchedule(w) ==
    /\ workerPc[w] = "schedule"
    /\ workerPc' = [workerPc EXCEPT ![w] = "idle"]
    /\ scheduled' = TRUE
    /\ lastOp' = OtherOp
    /\ UNCHANGED <<functionQueue, callbacksPaused, queueMutex, mainPc, invocation, elapsed,
                   appended, execLog, cancelled, waitSeq,
                   drain>>
    /\ UNCHANGED notDqVars

(***************************************************************************)
(* callOnMainThreadAndWait, from a worker thread (isMainThread() is false) *)
(***************************************************************************)
\* Lock, push the entry with &syncFlag, schedule if it is the only entry.
CallOnMainThreadAndWaitPush(w, f, c) ==
    /\ workerPc[w] = "idle"
    /\ queueMutex = {}
    /\ appended < MaxAppends
    /\ queueMutex' = MutexAfterPush(w)
    /\ functionQueue' = Append(functionQueue, Entry(f, c, w, appended + 1))
    /\ scheduled' = IF Len(functionQueue') = 1 THEN TRUE ELSE scheduled
    /\ workerPc' = [workerPc EXCEPT ![w] = "pushed"]
    /\ appended' = appended + 1
    /\ waitSeq' = [waitSeq EXCEPT ![w] = appended + 1]
    /\ lastOp' = OtherOp
    /\ UNCHANGED <<callbacksPaused, mainPc, invocation, elapsed, execLog,
                   cancelled, drain>>
    /\ UNCHANGED notDqVars

\* syncFlag.wait(functionQueueMutex): releases the mutex and blocks.
CallOnMainThreadAndWaitBlock(w) ==
    /\ workerPc[w] = "pushed"
    /\ queueMutex \subseteq {w}
    /\ workerPc' = CondWait(workerPc, w)
    /\ queueMutex' = {}
    /\ lastOp' = OtherOp
    /\ UNCHANGED <<functionQueue, callbacksPaused, scheduled, mainPc, invocation, elapsed,
                   appended, execLog, cancelled, waitSeq,
                   drain>>
    /\ UNCHANGED notDqVars

\* The wait is over: the mutex is re-acquired, the locker unlocks, the call returns.
CallOnMainThreadAndWaitReturn(w) ==
    /\ workerPc[w] = "woken"
    /\ queueMutex = {}
    /\ workerPc' = [workerPc EXCEPT ![w] = "idle"]
    /\ waitSeq' = [waitSeq EXCEPT ![w] = 0]
    /\ lastOp' = Op("waitReturn", 0, 0, << >>, waitSeq[w], NoDrain)
    /\ UNCHANGED <<functionQueue, callbacksPaused, queueMutex, scheduled, mainPc, invocation,
                   elapsed, appended, execLog, cancelled, drain>>
    /\ UNCHANGED notDqVars

(***************************************************************************)
(* callOnMainThreadAndWait, on the main thread: from the run loop or from  *)
(* inside a dispatched function                                            *)
(***************************************************************************)
\* The main thread is taken for another thread.
IsNeverMainThread(t) == FALSE

\* isMainThread(), for the calling thread t
IsMainThread(t) == t = MainThread

\* The call record of callOnMainThreadAndWait on the main thread: the queue,
\* the scheduling request and the position of the main thread before the
\* call, and the functions the call has invoked.
WaitOnMainOp(f, c, invoked) ==
    [op |-> "waitOnMain", function |-> f, context |-> c, before |-> functionQueue,
     seq |-> 0, drain |-> NoDrain, scheduledBefore |-> scheduled, pcBefore |-> mainPc,
     invoked |-> invoked]

\* if (isMainThread()) { function(context); return; }  Otherwise the entry is
\* pushed with &syncFlag and the caller waits for a signal.
CallOnMainThreadAndWaitOnMain(f, c) ==
    /\ mainPc \in {"idle", "run"}
    /\ IF IsMainThread(MainThread)
       THEN /\ lastOp' = WaitOnMainOp(f, c, << <<f, c>> >>)
            /\ UNCHANGED <<functionQueue, scheduled, mainPc, appended>>
       ELSE /\ queueMutex = {}
            /\ appended < MaxAppends
            /\ functionQueue' = Append(functionQueue, Entry(f, c, MainThread, appended + 1))
            /\ scheduled' = IF Len(functionQueue') = 1 THEN TRUE ELSE scheduled
            /\ mainPc' = "waiting"
            /\ appended' = appended + 1
            /\ lastOp' = WaitOnMainOp(f, c, << >>)
    /\ UNCHANGED <<callbacksPaused, queueMutex, invocation, elapsed, workerPc, execLog,
                   cancelled, waitSeq, drain>>
    /\ UNCHANGED notDqVars

(***************************************************************************)
(* cancelCallOnMainThread, from a worker thread                            *)
(***************************************************************************)
CancelCallOnMainThread(w, f, c) ==
    /\ workerPc[w] = "idle"
    /\ queueMutex = {}
    /\ functionQueue' = RemoveIf(functionQueue, FunctionWithContext(f, c, NoFlag))
    /\ cancelled' = cancelled \cup (SeqsOf(functionQueue) \ SeqsOf(functionQueue'))
    /\ lastOp' = Op("cancel", f, c, functionQueue, 0, NoDrain)
    /\ UNCHANGED <<callbacksPaused, queueMutex, scheduled, mainPc, invocation, elapsed,
                   workerPc, appended, execLog, waitSeq,
                   drain>>
    /\ UNCHANGED notDqVars

(***************************************************************************)
(* setMainThreadCallbacksPaused, on the main thread: from the run loop or  *)
(* from inside a dispatched function                                       *)
(***************************************************************************)
SetMainThreadCallbacksPaused(paused) ==
    /\ mainPc \in {"idle", "run"}
    /\ IF callbacksPaused = paused
       THEN UNCHANGED <<callbacksPaused, scheduled>>
       ELSE /\ callbacksPaused' = paused
            /\ scheduled' = IF ~paused THEN TRUE ELSE scheduled
    /\ lastOp' = OtherOp
    /\ UNCHANGED <<functionQueue, queueMutex, mainPc, invocation, elapsed, workerPc,
                   appended, execLog, cancelled, waitSeq, drain>>
    /\ UNCHANGED notDqVars

(***************************************************************************)
(* dispatchFunctionsFromMainThread                                         *)
(***************************************************************************)
\* The pause flag is not looked at.
NeverPausedAtEntry == FALSE

\* if (callbacksPaused) return;
PausedAtEntry == callbacksPaused

\* Entry: the pause test and startTime = currentTime().  The run loop calls it
\* for an outstanding request (viaRequest) or the embedder calls it directly.
DispatchBegin(viaRequest) ==
    /\ mainPc = "idle"
    /\ viaRequest => scheduled
    /\ scheduled' = IF viaRequest THEN FALSE ELSE scheduled
    /\ IF PausedAtEntry
       THEN /\ lastOp' = Op("drainPaused", 0, 0, functionQueue, 0, NoDrain)
            /\ UNCHANGED <<mainPc, elapsed, drain>>
       ELSE /\ mainPc' = "pop"
            /\ elapsed' = 0
            /\ drain' = [startNonEmpty |-> Len(functionQueue) > 0, lockNonEmpty |-> FALSE,
                         locked |-> FALSE, executed |-> 0]
            /\ lastOp' = OtherOp
    /\ UNCHANGED <<functionQueue, callbacksPaused, queueMutex, invocation, workerPc,
                   appended, execLog, cancelled, waitSeq>>
    /\ UNCHANGED notDqVars

\* The locked block at the top of the loop: break on an empty queue, else
\* take the front entry and pop it.  The function starts to run.
DispatchPop ==
    /\ mainPc = "pop"
    /\ queueMutex = {}
    /\ LET seen == IF drain.locked THEN drain
                   ELSE [drain EXCEPT !.locked = TRUE,
                                      !.lockNonEmpty = Len(functionQueue) > 0]
       IN IF Len(functionQueue) = 0
          THEN /\ mainPc' = "idle"
               /\ invocation' = NullInvocation
               /\ elapsed' = 0
               /\ drain' = NoDrain
               /\ lastOp' = Op("drainEmpty", 0, 0, functionQueue, 0, seen)
               /\ UNCHANGED functionQueue
          ELSE /\ invocation' = QueueFront(functionQueue)
               /\ functionQueue' = PopFront(functionQueue)
               /\ mainPc' = "run"
               /\ drain' = seen
               /\ lastOp' = OtherOp
               /\ UNCHANGED elapsed
    /\ UNCHANGED <<callbacksPaused, queueMutex, scheduled, workerPc, appended,
                   execLog, cancelled, waitSeq>>
    /\ UNCHANGED notDqVars

\* invocation.function(invocation.context) returns after d time units.
DispatchRun(d) ==
    /\ mainPc = "run"
    /\ execLog' = Append(execLog, invocation.seq)
    /\ elapsed' = CapElapsed(elapsed + d)
    /\ drain' = [drain EXCEPT !.executed = 1]
    /\ mainPc' = IF invocation.syncFlag # NoFlag THEN "signal" ELSE "check"
    /\ lastOp' = OtherOp
    /\ UNCHANGED <<functionQueue, callbacksPaused, queueMutex, scheduled, invocation,
                   workerPc, appended, cancelled, waitSeq>>
    /\ UNCHANGED notDqVars

\* if (invocation.syncFlag) { MutexLocker locker(...); invocation.syncFlag->signal(); }
DispatchSignal ==
    /\ mainPc = "signal"
    /\ queueMutex = {}
    /\ workerPc' = CondSignal(workerPc, invocation.syncFlag)
    /\ mainPc' = "check"
    /\ lastOp' = OtherOp
    /\ UNCHANGED <<functionQueue, callbacksPaused, queueMutex, scheduled, invocation, elapsed,
                   appended, execLog, cancelled, waitSeq, drain>>
    /\ UNCHANGED notDqVars

\* The budget test after the entry: reschedule and break, or loop.
DispatchCheck ==
    /\ mainPc = "check"
    /\ IF BudgetExceeded(elapsed)
       THEN /\ scheduled' = TRUE
            /\ mainPc' = "idle"
            /\ invocation' = NullInvocation
            /\ elapsed' = 0
            /\ drain' = NoDrain
            /\ lastOp' = Op("drainYield", 0, 0, functionQueue, invocation.seq, drain)
       ELSE /\ mainPc' = "pop"
            /\ lastOp' = OtherOp
            /\ UNCHANGED <<scheduled, invocation, elapsed, drain>>
    /\ UNCHANGED <<functionQueue, callbacksPaused, queueMutex, workerPc, appended,
                   execLog, cancelled, waitSeq>>
    /\ UNCHANGED notDqVars

(***************************************************************************)
(* The dispatch queue's next-state relation and specifications             *)
(***************************************************************************)
DqNext ==
    \/ \E w \in Workers, id \in Identities : CallOnMainThread(w, id[1], id[2])
    \/ \E w \in Workers : CallOnMainThreadSchedule(w)
    \/ \E w \in Workers, id \in Identities : CallOnMainThreadAndWaitPush(w, id[1], id[2])
    \/ \E w \in Workers : CallOnMainThreadAndWaitBlock(w)
    \/ \E w \in Workers : CallOnMainThreadAndWaitReturn(w)
    \/ \E w \in Workers, id \in Identities : CancelCallOnMainThread(w, id[1], id[2])
    \/ \E p \in BOOLEAN : SetMainThreadCallbacksPaused(p)
    \/ \E r \in BOOLEAN : DispatchBegin(r)
    \/ DispatchPop
    \/ \E d \in Durations : DispatchRun(d)
    \/ DispatchSignal
    \/ DispatchCheck

\* The operations of the queue, and callOnMainThreadAndWait on the main
\* thread as well.
DqMainNext ==
    \/ DqNext
    \/ \E id \in Identities : CallOnMainThreadAndWaitOnMain(id[1], id[2])

(***************************************************************************)
(* AudioNode: reference counting, connect and disconnect                   *)
(***************************************************************************)
Nodes == {1, 2, 3}
NoNode == 0

RefTypeNormal == "RefTypeNormal"
RefTypeConnection == "RefTypeConnection"

NodeTypeUnknown == "NodeTypeUnknown"
NodeTypeConvolver == "NodeTypeConvolver"
NodeTypeDelay == "NodeTypeDelay"

\* The node types of the graphs explored: all plain, or a plain node feeding
\* a delay and a convolver.
NodeTypeChoices ==
    { [n \in Nodes |-> NodeTypeUnknown],
      [n \in Nodes |-> IF n = 1 THEN NodeTypeUnknown
                       ELSE IF n = 2 THEN NodeTypeDelay ELSE NodeTypeConvolver] }

\* numberOfOutputs() and numberOfInputs() of the nodes explored.
NumberOfOutputs(n) == 1
NumberOfInputs(n) == 1

\* The indices the callers pass: one past the largest valid index included.
OutputIndices == 0..1
InputIndices == 0..1

\* The (source, destination) pairs the callers connect: a chain 1 -> 2 -> 3
\* and a second path 1 -> 3.
Connectable == {<<1, 2>>, <<2, 3>>, <<1, 3>>}

\* The part of the state the reference-counting code reads and writes.
NodeState ==
    [normal |-> normalRefCount, conn |-> connectionRefCount,
     marked |-> isMarkedForDeletion, disabled |-> isDisabled,
     enabled |-> outputEnabled, edges |-> connections,
     marks |-> markCount, assertViolated |-> FALSE]

EdgesOfOutput(st, n, o) == {e \in st.edges : e[1] = n /\ e[2] = o}

EdgesOfNode(st, n) == {e \in st.edges : e[1] = n}

\* The connection of a set that an output's loop visits first.
FirstEdge(es) ==
    CHOOSE e \in es : \A x \in es : e[3] < x[3] \/ (e[3] = x[3] /\ e[4] <= x[4])

Smallest(ds) == CHOOSE d \in ds : \A x \in ds : d <= x

\* A dormant node stays dormant.
EnableNoOutputs(st, n) == st

\* AudioNode::enableOutputsIfNecessary
EnableOutputsIfNecessary(st, n) ==
    IF st.disabled[n] /\ st.conn[n] > 0
    THEN [st EXCEPT !.disabled[n] = FALSE, !.enabled[n] = TRUE]
    ELSE st

\* AudioNode::ref
RefNode(st, n, refType) ==
    IF refType = RefTypeNormal
    THEN [st EXCEPT !.normal[n] = @ + 1]
    ELSE EnableOutputsIfNecessary([st EXCEPT !.conn[n] = @ + 1], n)

\* The switch of AudioNode::deref: the ASSERT and the atomicDecrement.
Decrement(st, n, refType) ==
    IF refType = RefTypeNormal
    THEN [st EXCEPT !.normal[n] = @ - 1,
                    !.assertViolated = @ \/ ~(st.normal[n] > 0)]
    ELSE [st EXCEPT !.conn[n] = @ - 1,
                    !.assertViolated = @ \/ ~(st.conn[n] > 0)]

\* The test is left out.
NeverMarked(st, n) == TRUE

\* if (!m_isMarkedForDeletion)
NotMarkedForDeletion(st, n) == ~st.marked[n]

\* No output is disconnected.
DisconnectNoOutput(st, n, i) == st

\* Every node is taken to have no significant tail.
NoNodeHasSignificantTail(n) == TRUE

\* nodeType() != NodeTypeConvolver && nodeType() != NodeTypeDelay
HasNoSignificantTail(n) ==
    nodeType[n] # NodeTypeConvolver /\ nodeType[n] # NodeTypeDelay

RECURSIVE DerefNode(_, _, _)
RECURSIVE DisconnectAll(_, _, _)
RECURSIVE DisconnectOutputs(_, _, _)
RECURSIVE DisableOutputsIfNecessary(_, _)
RECURSIVE DisableDownstream(_, _)

\* AudioNodeOutput::disconnectAll: every input the output is connected to is
\* disconnected, which derefs the input's node.
DisconnectAll(st, n, o) ==
    LET es == EdgesOfOutput(st, n, o)
    IN  IF es = {} THEN st
        ELSE LET e == FirstEdge(es)
                 removed == [st EXCEPT !.edges = @ \ {e}]
             IN  DisconnectAll(DerefNode(removed, e[3], RefTypeConnection), n, o)

\* for (i < AUDIONODE_MAXOUTPUTS) if (auto out = output(i)) disconnectAll(g, out)
DisconnectOutputs(st, n, i) ==
    IF i >= NumberOfOutputs(n) THEN st
    ELSE DisconnectOutputs(DisconnectAll(st, n, i), n, i + 1)

\* AudioNodeOutput::disable for the outputs of n: the outputs go dormant and
\* each input they feed asks its own node to disable its outputs if necessary.
DisableDownstream(st, ds) ==
    IF ds = {} THEN st
    ELSE LET d == Smallest(ds)
         IN  DisableDownstream(DisableOutputsIfNecessary(st, d), ds \ {d})

\* AudioNode::disableOutputsIfNecessary
DisableOutputsIfNecessary(st, n) ==
    IF st.conn[n] <= 1 /\ ~st.disabled[n]
    THEN IF HasNoSignificantTail(n)
         THEN LET dormant == [st EXCEPT !.disabled[n] = TRUE, !.enabled[n] = FALSE]
              IN  DisableDownstream(dormant, {e[3] : e \in EdgesOfNode(dormant, n)})
         ELSE st
    ELSE st

\* AudioNode::deref
DerefNode(st, n, refType) ==
    LET s1 == Decrement(st, n, refType)
    IN  IF s1.conn[n] = 0
        THEN IF s1.normal[n] = 0
             THEN IF NotMarkedForDeletion(s1, n)
                  THEN LET s2 == DisconnectOutputs(s1, n, 0)
                       IN  [s2 EXCEPT !.marked[n] = TRUE, !.marks[n] = @ + 1]
                  ELSE s1
             ELSE IF refType = RefTypeConnection
                  THEN DisableOutputsIfNecessary(s1, n)
                  ELSE s1
        ELSE s1

\* AudioContext::connect(input, output): the connection is made unless it
\* exists already, and the input's node gains a connection reference.
ContextConnect(st, s, o, d, i) ==
    IF <<s, o, d, i>> \in st.edges THEN st
    ELSE RefNode([st EXCEPT !.edges = @ \cup {<<s, o, d, i>>}], d, RefTypeConnection)

\* The state after a call that left the reference-counting state st.
NodeStateBecomes(st) ==
    /\ normalRefCount' = st.normal
    /\ connectionRefCount' = st.conn
    /\ isMarkedForDeletion' = st.marked
    /\ isDisabled' = st.disabled
    /\ outputEnabled' = st.enabled
    /\ connections' = st.edges
    /\ markCount' = st.marks

\* The node operation that produced the current state: for a deref, the node,
\* whether it was marked before the call and whether it had connected outputs.
DerefOp(n, refType, after) ==
    [op |-> "deref", node |-> n, refType |-> refType,
     wasMarked |-> isMarkedForDeletion[n], wasDisabled |-> isDisabled[n],
     hadOutputs |-> EdgesOfNode(NodeState, n) # {},
     marked |-> {m \in Nodes : after.marked[m] /\ ~isMarkedForDeletion[m]}]

\* The record of a ref call: the node and whether it was disabled before.
RefOp(n, refType) ==
    [op |-> "ref", node |-> n, refType |-> refType,
     wasMarked |-> isMarkedForDeletion[n], wasDisabled |-> isDisabled[n],
     hadOutputs |-> EdgesOfNode(NodeState, n) # {}, marked |-> {}]

OtherNodeOp ==
    [op |-> "other", node |-> NoNode, refType |-> RefTypeNormal,
     wasMarked |-> FALSE, wasDisabled |-> FALSE, hadOutputs |-> FALSE, marked |-> {}]

\* AudioNode::AudioNode for every node, no connection made yet
NewNodes ==
    [normal |-> [n \in Nodes |-> 1], conn |-> [n \in Nodes |-> 0],
     marked |-> [n \in Nodes |-> FALSE], disabled |-> [n \in Nodes |-> FALSE],
     enabled |-> [n \in Nodes |-> TRUE], edges |-> {},
     marks |-> [n \in Nodes |-> 0], assertViolated |-> FALSE]

\* The nodes after construction, their types among the given ones.
NodeInitOf(types) ==
    /\ normalRefCount = NewNodes.normal
    /\ connectionRefCount = NewNodes.conn
    /\ isMarkedForDeletion = NewNodes.marked
    /\ isDisabled = NewNodes.disabled
    /\ nodeType \in types
    /\ outputEnabled = NewNodes.enabled
    /\ connections = NewNodes.edges
    /\ ec = "none"
    /\ crashed = FALSE
    /\ heldConnections = [n \in Nodes |-> 0]
    /\ markCount = NewNodes.marks
    /\ lastNodeOp = OtherNodeOp

NodeInit == NodeInitOf(NodeTypeChoices)

\* The nodes while no node operation is explored: all of them plain.
NodeAtRest == NodeInitOf({[n \in Nodes |-> NodeTypeUnknown]})

RECURSIVE SumOver(_, _)
SumOver(f, ns) ==
    IF ns = {} THEN 0
    ELSE LET n == Smallest(ns) IN f[n] + SumOver(f, ns \ {n})

\* The references the callers hold beyond one normal reference per node.
ExtraRefs ==
    SumOver([n \in Nodes |-> IF normalRefCount[n] > 1 THEN normalRefCount[n] - 1 ELSE 0],
            Nodes)
    + SumOver(heldConnections, Nodes)

\* node->ref(g, refType), by a caller that then holds the reference
Ref(n, refType) ==
    /\ ~crashed
    /\ IF refType = RefTypeNormal
       THEN /\ normalRefCount[n] = 0 \/ ExtraRefs < MaxExtraRefs
            /\ UNCHANGED heldConnections
       ELSE /\ ExtraRefs < MaxExtraRefs
            /\ heldConnections' = [heldConnections EXCEPT ![n] = @ + 1]
    /\ LET after == RefNode(NodeState, n, refType) IN NodeStateBecomes(after)
    /\ lastNodeOp' = RefOp(n, refType)
    /\ ec' = "none"
    /\ UNCHANGED <<nodeType, crashed>>
    /\ UNCHANGED notNodeVars

\* node->deref(g, refType), by a caller that holds such a reference
Deref(n, refType) ==
    /\ ~crashed
    /\ IF refType = RefTypeNormal
       THEN /\ normalRefCount[n] > 0
            /\ UNCHANGED heldConnections
       ELSE /\ heldConnections[n] > 0
            /\ connectionRefCount[n] > 0
            /\ heldConnections' = [heldConnections EXCEPT ![n] = @ - 1]
    /\ LET after == DerefNode(NodeState, n, refType)
       IN  /\ NodeStateBecomes(after)
           /\ lastNodeOp' = DerefOp(n, refType, after)
    /\ ec' = "none"
    /\ UNCHANGED <<nodeType, crashed>>
    /\ UNCHANGED notNodeVars

\* The counter a deref of the given type decrements.
CounterOf(n, refType) ==
    IF refType = RefTypeNormal THEN normalRefCount[n] ELSE connectionRefCount[n]

\* node->deref(g, refType) while the counter of that type is not positive.
\* ASSERT(m_normalRefCount > 0) and ASSERT(m_connectionRefCount > 0) end the
\* process in a build that keeps assertions; a build that compiles them out
\* goes on to the decrement.
DerefAtZero(n, refType, assertionsEnabled) ==
    /\ ~crashed
    /\ CounterOf(n, refType) <= 0
    /\ CounterOf(n, refType) > 0 - MaxUnderflow
    /\ IF assertionsEnabled
       THEN /\ crashed' = TRUE
            /\ NodeStateBecomes(NewNodes)
            /\ heldConnections' = [m \in Nodes |-> 0]
            /\ lastNodeOp' = OtherNodeOp
       ELSE /\ LET after == DerefNode(NodeState, n, refType)
               IN  /\ NodeStateBecomes(after)
                   /\ lastNodeOp' = DerefOp(n, refType, after)
            /\ heldConnections' =
                   IF refType = RefTypeConnection /\ heldConnections[n] > 0
                   THEN [heldConnections EXCEPT ![n] = @ - 1]
                   ELSE heldConnections
            /\ UNCHANGED crashed
    /\ ec' = "none"
    /\ UNCHANGED nodeType
    /\ UNCHANGED notNodeVars

\* AudioNode::connect(context, destination, outputIndex, inputIndex, ec)
Connect(context, s, o, d, i) ==
    /\ ~crashed
    /\ lastNodeOp' = OtherNodeOp
    /\ IF ~context \/ d = NoNode
       THEN /\ ec' = "SYNTAX_ERR"
            /\ NodeStateBecomes(NodeState)
       ELSE IF o >= NumberOfOutputs(s) \/ i >= NumberOfInputs(d)
       THEN /\ ec' = "INDEX_SIZE_ERR"
            /\ NodeStateBecomes(NodeState)
       ELSE /\ ec' = "none"
            /\ LET after == ContextConnect(NodeState, s, o, d, i) IN NodeStateBecomes(after)
    /\ UNCHANGED <<nodeType, crashed, heldConnections>>
    /\ UNCHANGED notNodeVars

\* AudioNode::disconnect(context, outputIndex, ec).  The context is used
\* without a test: with a null context the call faults or, where the callee
\* does not touch its object, goes on.  A fault ends the process: nothing of
\* its state is left.
Disconnect(context, s, o, faults) ==
    /\ ~crashed
    /\ lastNodeOp' = OtherNodeOp
    /\ IF o >= NumberOfOutputs(s)
       THEN /\ ec' = "INDEX_SIZE_ERR"
            /\ NodeStateBecomes(NodeState)
            /\ UNCHANGED <<crashed, heldConnections>>
       ELSE IF ~context /\ faults
       THEN /\ crashed' = TRUE
            /\ NodeStateBecomes(NewNodes)
            /\ heldConnections' = [n \in Nodes |-> 0]
            /\ ec' = "none"
       ELSE /\ ec' = "none"
            /\ LET after == DisconnectAll(NodeState, s, o) IN NodeStateBecomes(after)
            /\ UNCHANGED <<crashed, heldConnections>>
    /\ UNCHANGED nodeType
    /\ UNCHANGED notNodeVars

NodeNext ==
    \/ \E n \in Nodes, t \in {RefTypeNormal, RefTypeConnection} : Ref(n, t)
    \/ \E n \in Nodes, t \in {RefTypeNormal, RefTypeConnection} : Deref(n, t)
    \/ \E c \in BOOLEAN, sd \in Connectable, o \in OutputIndices, i \in InputIndices,
          present \in BOOLEAN :
          \* at most one argument is invalid in a call
          /\ ~c => (o = 0 /\ i = 0 /\ present)
          /\ ~present => (o = 0 /\ i = 0)
          /\ o # 0 => i = 0
          /\ Connect(c, sd[1], o, IF present THEN sd[2] ELSE NoNode, i)
    \/ \E c \in BOOLEAN, s \in Nodes, o \in OutputIndices, f \in BOOLEAN :
          /\ ~c => o = 0
          /\ f => ~c
          /\ Disconnect(c, s, o, f)

\* ref and deref calls in any order, also derefs of a counter that is zero.
NodeMisuseNext ==
    \/ \E n \in Nodes, t \in {RefTypeNormal, RefTypeConnection} : Ref(n, t)
    \/ \E n \in Nodes, t \in {RefTypeNormal, RefTypeConnection} : Deref(n, t)
    \/ \E n \in Nodes, t \in {RefTypeNormal, RefTypeConnection}, a \in BOOLEAN :
          DerefAtZero(n, t, a)

(***************************************************************************)
(* AudioNode: per-quantum processing                                       *)
(***************************************************************************)
\* Times are in sample frames.  m_sampleRate frames make one second.
SampleRate == 4
\* framesToProcess: the frames of one render quantum.
RenderQuantumFrames == 2

\* m_lastProcessingTime(-1), m_lastNonSilentTime(-1): minus one second.
NeverTime == 0 - SampleRate

\* The node whose input is fed from outside the graph.
FedNode == 1

\* The nodes that are uninitialized and initialized again while rendering.
Reinitialized == {2}

\* The connections of the graphs rendered: a chain 1 -> 2 -> 3, and the same
\* chain with a feedback connection 3 -> 2.
RenderGraphs ==
    { [n \in Nodes |-> IF n = 1 THEN {} ELSE {n - 1}],
      [n \in Nodes |-> IF n = 1 THEN {} ELSE IF n = 2 THEN {1, 3} ELSE {2}] }

\* tailTime() and latencyTime() of the nodes, in frames.
Timings ==
    { [tail |-> [n \in Nodes |-> 0], latency |-> [n \in Nodes |-> 0]],
      [tail |-> [n \in Nodes |-> RenderQuantumFrames], latency |-> [n \in Nodes |-> 0]],
      [tail |-> [n \in Nodes |-> RenderQuantumFrames + 1], latency |-> [n \in Nodes |-> 0]],
      [tail |-> [n \in Nodes |-> 0],
       latency |-> [n \in Nodes |-> IF n = 2 THEN RenderQuantumFrames ELSE 0]] }

\* The part of the state processIfNecessary reads and writes.
RenderState ==
    [lpt |-> lastProcessingTime, lns |-> lastNonSilentTime, silent |-> outputSilent,
     steps |-> stepsThisQuantum, pulls |-> pullsThisQuantum, step |-> lastStep,
     inSilent |-> inputsWereSilent, loudEnd |-> lastLoudEnd, overflow |-> pullOverflow]

\* (ac->currentSampleFrame() + framesToProcess) / m_sampleRate
EndOfQuantum(frame) == frame + RenderQuantumFrames

\* The comparison is not strict.
PropagatesSilenceAtTail(st, n, now) ==
    st.lns[n] + latencyTime[n] + tailTime[n] <= now

\* AudioNode::propagatesSilence
PropagatesSilence(st, n, now) ==
    st.lns[n] + latencyTime[n] + tailTime[n] < now

\* AudioNode::inputsAreSilent: the bus of every input is silent.  The bus of
\* an input is silent when the bus of every output connected to it is.
InputsAreSilent(st, n) ==
    /\ n = FedNode => feedSilent
    /\ \A u \in upstream[n] : st.silent[u]

\* The node is taken never to have run at this time.
NeverProcessedNow(st, n, now) == TRUE

\* m_lastProcessingTime != currentTime
NotYetProcessedNow(st, n, now) == st.lpt[n] # now

\* Silent inputs are taken to be enough.
SilentInputsSuffice(silentInputs, ps) == silentInputs

\* if (silentInputs && ps)
SubstitutesSilence(silentInputs, ps) == silentInputs /\ ps

\* The time is not stored before the inputs are pulled.
NotStampedBeforePull(st, n, now) == [st EXCEPT !.pulls[n] = @ + 1]

\* m_lastProcessingTime = currentTime, first, because of feedback loops
StampedBeforePull(st, n, now) == [st EXCEPT !.lpt[n] = now, !.pulls[n] = @ + 1]

RECURSIVE ProcessNode(_, _, _, _)
RECURSIVE PullInputs(_, _, _, _)

\* AudioNode::pullInputs: every input pulls the outputs connected to it, and
\* an output that is pulled has its node process if necessary.
PullInputs(st, ups, now, fuel) ==
    IF ups = {} THEN st
    ELSE LET u == Smallest(ups)
         IN  PullInputs(ProcessNode(st, u, now, fuel), ups \ {u}, now, fuel)

\* AudioNode::processIfNecessary with a render context
ProcessNode(st, n, now, fuel) ==
    IF fuel = 0 THEN [st EXCEPT !.overflow = TRUE]
    ELSE IF ~isInitialized[n] THEN st
    ELSE IF NotYetProcessedNow(st, n, now)
    THEN LET stamped == StampedBeforePull(st, n, now)
             pulled == PullInputs(stamped, upstream[n], now, fuel - 1)
             silentInputs == InputsAreSilent(pulled, n)
             timed == IF ~silentInputs
                      THEN [pulled EXCEPT !.lns[n] = EndOfQuantum(now),
                                          !.loudEnd[n] = now + RenderQuantumFrames]
                      ELSE pulled
             ps == PropagatesSilence(timed, n, now)
         IN  IF SubstitutesSilence(silentInputs, ps)
             THEN \* silenceOutputs()
                  [timed EXCEPT !.silent[n] = TRUE, !.step[n] = "silence",
                                !.steps[n] = @ + 1, !.inSilent[n] = silentInputs]
             ELSE \* process(r, framesToProcess); unsilenceOutputs()
                  [timed EXCEPT !.silent[n] = FALSE, !.step[n] = "process",
                                !.steps[n] = @ + 1, !.inSilent[n] = silentInputs]
    ELSE st

RenderStateBecomes(st) ==
    /\ lastProcessingTime' = st.lpt
    /\ lastNonSilentTime' = st.lns
    /\ outputSilent' = st.silent
    /\ stepsThisQuantum' = st.steps
    /\ pullsThisQuantum' = st.pulls
    /\ lastStep' = st.step
    /\ inputsWereSilent' = st.inSilent
    /\ lastLoudEnd' = st.loudEnd
    /\ pullOverflow' = st.overflow

OtherRenderOp ==
    [op |-> "other", node |-> NoNode, context |-> FALSE, memo |-> FALSE, changed |-> FALSE]

\* The render state after construction, the connections and the timing
\* among the given ones.
RenderInitOf(graphs, timings) ==
    /\ currentSampleFrame = 0
    /\ isInitialized = [n \in Nodes |-> TRUE]
    /\ lastProcessingTime = [n \in Nodes |-> NeverTime]
    /\ lastNonSilentTime = [n \in Nodes |-> NeverTime]
    /\ outputSilent = [n \in Nodes |-> TRUE]
    /\ upstream \in graphs
    /\ feedSilent = TRUE
    /\ \E t \in timings : tailTime = t.tail /\ latencyTime = t.latency
    /\ stepsThisQuantum = [n \in Nodes |-> 0]
    /\ pullsThisQuantum = [n \in Nodes |-> 0]
    /\ lastStep = [n \in Nodes |-> "none"]
    /\ inputsWereSilent = [n \in Nodes |-> TRUE]
    /\ lastLoudEnd = [n \in Nodes |-> NeverTime]
    /\ pullOverflow = FALSE
    /\ lastRenderOp = OtherRenderOp

RenderInit == RenderInitOf(RenderGraphs, Timings)

\* The render state while no rendering is explored: unconnected nodes with
\* no tail and no latency.
RenderAtRest ==
    RenderInitOf({[n \in Nodes |-> {}]},
                 {[tail |-> [n \in Nodes |-> 0], latency |-> [n \in Nodes |-> 0]]})

\* node->processIfNecessary(r, framesToProcess), on the render thread
ProcessIfNecessary(n, hasContext) ==
    /\ LET after == IF hasContext
                    THEN ProcessNode(RenderState, n, currentSampleFrame, MaxPullDepth)
                    ELSE RenderState
       IN  /\ RenderStateBecomes(after)
           /\ lastRenderOp' = [op |-> "processIfNecessary", node |-> n,
                               context |-> hasContext,
                               memo |-> lastProcessingTime[n] = currentSampleFrame,
                               changed |-> after # RenderState]
    /\ UNCHANGED <<currentSampleFrame, isInitialized, upstream, feedSilent, tailTime,
                   latencyTime>>
    /\ UNCHANGED notRenderVars

\* The render context moves on to the next quantum.
AdvanceQuantum ==
    /\ currentSampleFrame < MaxQuanta * RenderQuantumFrames
    /\ currentSampleFrame' = currentSampleFrame + RenderQuantumFrames
    /\ stepsThisQuantum' = [n \in Nodes |-> 0]
    /\ pullsThisQuantum' = [n \in Nodes |-> 0]
    /\ lastRenderOp' = OtherRenderOp
    /\ UNCHANGED <<isInitialized, lastProcessingTime, lastNonSilentTime, outputSilent,
                   upstream, feedSilent, tailTime, latencyTime, lastStep, inputsWereSilent,
                   lastLoudEnd, pullOverflow>>
    /\ UNCHANGED notRenderVars

\* The signal that feeds node 1 from outside starts or stops.
SetFeedSilent(b) ==
    /\ feedSilent' = b
    /\ lastRenderOp' = OtherRenderOp
    /\ UNCHANGED <<currentSampleFrame, isInitialized, lastProcessingTime, lastNonSilentTime,
                   outputSilent, upstream, tailTime, latencyTime, stepsThisQuantum,
                   pullsThisQuantum, lastStep, inputsWereSilent, lastLoudEnd, pullOverflow>>
    /\ UNCHANGED notRenderVars

\* AudioNode::initialize and AudioNode::uninitialize
SetInitialized(n, b) ==
    /\ isInitialized' = [isInitialized EXCEPT ![n] = b]
    /\ lastRenderOp' = OtherRenderOp
    /\ UNCHANGED <<currentSampleFrame, lastProcessingTime, lastNonSilentTime, outputSilent,
                   upstream, feedSilent, tailTime, latencyTime, stepsThisQuantum,
                   pullsThisQuantum, lastStep, inputsWereSilent, lastLoudEnd, pullOverflow>>
    /\ UNCHANGED notRenderVars

RenderNext ==
    \/ \E n \in Nodes, c \in BOOLEAN : ProcessIfNecessary(n, c)
    \/ AdvanceQuantum
    \/ \E b \in BOOLEAN : SetFeedSilent(b)
    \/ \E n \in Reinitialized, b \in BOOLEAN : SetInitialized(n, b)

(***************************************************************************)
(* ChannelMergerNode                                                       *)
(***************************************************************************)
\* numberOfInputs(): the inputs the merger is constructed with, numbered from 0.
NumberOfMergerInputs == 3
MergerInputs == 0..(NumberOfMergerInputs - 1)

\* The channels of the bus of a connected input.
ChannelCounts == 1..MaxInputChannels

\* The channels of the bus of an input nothing is connected to, and of the
\* output the merger is constructed with.
MonoChannels == 1

RECURSIVE NumberOfChannelsOfAllInputs(_, _, _)
\* The count taken over every input, connected or not.
NumberOfChannelsOfAllInputs(conn, ch, i) ==
    IF i = NumberOfMergerInputs THEN 0
    ELSE LET rest == NumberOfChannelsOfAllInputs(conn, ch, i + 1)
         IN  ch[i] + rest

RECURSIVE NumberOfChannelsOfConnectedInputs(_, _, _)
\* The loop of checkNumberOfChannelsForInput, from input i on.
NumberOfChannelsOfConnectedInputs(conn, ch, i) ==
    IF i = NumberOfMergerInputs THEN 0
    ELSE LET rest == NumberOfChannelsOfConnectedInputs(conn, ch, i + 1)
         IN  IF conn[i] THEN ch[i] + rest ELSE rest

\* The channels <<input, channel>> of one input, in channel order.
ChannelsOfInput(i, n) == [j \in 1..n |-> <<i, j - 1>>]

RECURSIVE MergeChannels(_, _, _)
\* The loop of process, from input i on: the input channels copied, in the
\* order of outputChannelIndex.
MergeChannels(conn, ch, i) ==
    IF i = NumberOfMergerInputs THEN <<>>
    ELSE IF conn[i]
         THEN ChannelsOfInput(i, ch[i]) \o MergeChannels(conn, ch, i + 1)
         ELSE MergeChannels(conn, ch, i + 1)

OtherMergerOp == [op |-> "other", zeroed |-> FALSE, copied |-> <<>>, outOfRange |-> FALSE]

MergerInit ==
    /\ inputConnected = [i \in MergerInputs |-> FALSE]
    /\ inputChannels = [i \in MergerInputs |-> MonoChannels]
    /\ desiredNumberOfOutputChannels = MonoChannels
    /\ pendingNumberOfChannels = MonoChannels
    /\ outputNumberOfChannels = MonoChannels
    /\ negotiated = FALSE
    /\ lastMergerOp = OtherMergerOp

\* An output with ch channels is connected to input i.
ConnectInput(i, ch) ==
    /\ ~inputConnected[i]
    /\ inputConnected' = [inputConnected EXCEPT ![i] = TRUE]
    /\ inputChannels' = [inputChannels EXCEPT ![i] = ch]
    /\ negotiated' = FALSE
    /\ lastMergerOp' = OtherMergerOp
    /\ UNCHANGED <<desiredNumberOfOutputChannels, pendingNumberOfChannels,
                   outputNumberOfChannels>>
    /\ UNCHANGED notMergerVars

\* The output connected to input i is disconnected.
DisconnectInput(i) ==
    /\ inputConnected[i]
    /\ inputConnected' = [inputConnected EXCEPT ![i] = FALSE]
    /\ inputChannels' = [inputChannels EXCEPT ![i] = MonoChannels]
    /\ negotiated' = FALSE
    /\ lastMergerOp' = OtherMergerOp
    /\ UNCHANGED <<desiredNumberOfOutputChannels, pendingNumberOfChannels,
                   outputNumberOfChannels>>
    /\ UNCHANGED notMergerVars

\* ChannelMergerNode::checkNumberOfChannelsForInput.  The output takes the
\* new count at once, or later in ApplyNumberOfChannels.
CheckNumberOfChannelsForInput(atOnce) ==
    /\ LET numberOfOutputChannels ==
               NumberOfChannelsOfConnectedInputs(inputConnected, inputChannels, 0)
       IN  /\ pendingNumberOfChannels' = numberOfOutputChannels
           /\ desiredNumberOfOutputChannels' = numberOfOutputChannels
           /\ outputNumberOfChannels' =
                  IF atOnce THEN numberOfOutputChannels ELSE outputNumberOfChannels
    /\ negotiated' = TRUE
    /\ lastMergerOp' = OtherMergerOp
    /\ UNCHANGED <<inputConnected, inputChannels>>
    /\ UNCHANGED notMergerVars

\* The output bus is updated to the count given to setNumberOfChannels.
ApplyNumberOfChannels ==
    /\ outputNumberOfChannels # pendingNumberOfChannels
    /\ outputNumberOfChannels' = pendingNumberOfChannels
    /\ lastMergerOp' = OtherMergerOp
    /\ UNCHANGED <<inputConnected, inputChannels, desiredNumberOfOutputChannels,
                   pendingNumberOfChannels, negotiated>>
    /\ UNCHANGED notMergerVars

\* ChannelMergerNode::process
MergerProcess ==
    /\ lastMergerOp' =
           IF desiredNumberOfOutputChannels # outputNumberOfChannels
           THEN [op |-> "process", zeroed |-> TRUE, copied |-> <<>>, outOfRange |-> FALSE]
           ELSE LET copied == MergeChannels(inputConnected, inputChannels, 0)
                IN  [op |-> "process", zeroed |-> FALSE, copied |-> copied,
                     outOfRange |-> Len(copied) > outputNumberOfChannels]
    /\ UNCHANGED <<inputConnected, inputChannels, desiredNumberOfOutputChannels,
                   pendingNumberOfChannels, outputNumberOfChannels, negotiated>>
    /\ UNCHANGED notMergerVars

MergerNext ==
    \/ \E i \in MergerInputs, ch \in ChannelCounts : ConnectInput(i, ch)
    \/ \E i \in MergerInputs : DisconnectInput(i)
    \/ \E atOnce \in BOOLEAN : CheckNumberOfChannelsForInput(atOnce)
    \/ ApplyNumberOfChannels
    \/ MergerProcess

(***************************************************************************)
(* The graph lock and the render lock, and the calls that are handed one   *)
(***************************************************************************)
\* The threads that take the locks, and no thread.
LockThreads == {1, 2}
NoThread == 0

\* The node whose counters are changed, and the inputs of the merger that
\* are connected, while the locks are explored.
LockedNode == 1
LockedInputs == {0, 1}

LocksFree == graphLock = NoThread /\ renderLock = NoThread

\* Thread t holds neither lock.
HoldsNoLock(t) == graphLock # t /\ renderLock # t

\* ContextGraphLock g(context): thread t takes the graph lock; no thread
\* holds more than one of the locks.
AcquireGraphLock(t) ==
    /\ graphLock = NoThread
    /\ HoldsNoLock(t)
    /\ graphLock' = t
    /\ UNCHANGED renderLock
    /\ UNCHANGED notLockVars

\* ContextRenderLock r(context): thread t takes the render lock.
AcquireRenderLock(t) ==
    /\ renderLock = NoThread
    /\ HoldsNoLock(t)
    /\ renderLock' = t
    /\ UNCHANGED graphLock
    /\ UNCHANGED notLockVars

\* The lock object of thread t goes out of scope.
ReleaseLock(t) ==
    /\ ~HoldsNoLock(t)
    /\ graphLock' = IF graphLock = t THEN NoThread ELSE graphLock
    /\ renderLock' = IF renderLock = t THEN NoThread ELSE renderLock
    /\ UNCHANGED notLockVars

\* void AudioNode::ref(ContextGraphLock& g, RefType refType), called by t
RefWithGraphLock(t, n, refType) ==
    /\ graphLock = t
    /\ Ref(n, refType)

\* void AudioNode::deref(ContextGraphLock& g, RefType refType), called by t
DerefWithGraphLock(t, n, refType) ==
    /\ graphLock = t
    /\ Deref(n, refType)

\* void ChannelMergerNode::checkNumberOfChannelsForInput(ContextRenderLock & r,
\* AudioNodeInput * input), called by t: output->setNumberOfChannels(r, ...)
CheckWithRenderLock(t, atOnce) ==
    /\ renderLock = t
    /\ CheckNumberOfChannelsForInput(atOnce)

LockNext ==
    \/ \E t \in LockThreads : AcquireGraphLock(t)
    \/ \E t \in LockThreads : AcquireRenderLock(t)
    \/ \E t \in LockThreads : ReleaseLock(t)
    \/ \E t \in LockThreads, rt \in {RefTypeNormal, RefTypeConnection} :
          RefWithGraphLock(t, LockedNode, rt)
    \/ \E t \in LockThreads, rt \in {RefTypeNormal, RefTypeConnection} :
          DerefWithGraphLock(t, LockedNode, rt)
    \/ \E i \in LockedInputs, ch \in ChannelCounts : ConnectInput(i, ch)
    \/ \E i \in LockedInputs : DisconnectInput(i)
    \/ \E t \in LockThreads : CheckWithRenderLock(t, TRUE)

(***************************************************************************)
(* Specifications                                                          *)
(***************************************************************************)
\* Each specification explores the operations of one part of the program
\* from the state after construction, the other parts at rest.
DispatchInit == DqInit /\ NodeAtRest /\ RenderAtRest /\ MergerInit /\ LocksFree

DispatchSpec == DispatchInit /\ [][DqNext]_vars

DispatchMainSpec == DispatchInit /\ [][DqMainNext]_vars

\* The drain steps and the waiters' steps are taken when they stay enabled.
DispatchFairSpec ==
    /\ DispatchInit
    /\ [][DqNext]_vars
    /\ WF_vars(DispatchPop)
    /\ WF_vars(\E d \in Durations : DispatchRun(d))
    /\ WF_vars(DispatchSignal)
    /\ WF_vars(DispatchCheck)
    /\ \A w \in Workers : WF_vars(CallOnMainThreadAndWaitBlock(w))
    /\ \A w \in Workers : WF_vars(CallOnMainThreadAndWaitReturn(w))

\* The fair scheduler, a run loop that runs a drain for every scheduling
\* request, and callers that go on to their scheduling call.
DispatchRunLoopSpec ==
    /\ DispatchFairSpec
    /\ WF_vars(DispatchBegin(TRUE))
    /\ \A w \in Workers : WF_vars(CallOnMainThreadSchedule(w))

NodeGraphInit == DqInit /\ NodeInit /\ RenderAtRest /\ MergerInit /\ LocksFree

NodeSpec == NodeGraphInit /\ [][NodeNext]_vars

RenderingInit == DqInit /\ NodeAtRest /\ RenderInit /\ MergerInit /\ LocksFree

RenderSpec == RenderingInit /\ [][RenderNext]_vars

NodeMisuseSpec == NodeGraphInit /\ [][NodeMisuseNext]_vars

\* Reference counting and render passes on the same unconnected nodes.
NodeRenderNext ==
    \/ \E n \in Nodes, t \in {RefTypeNormal, RefTypeConnection} : Ref(n, t)
    \/ \E n \in Nodes, t \in {RefTypeNormal, RefTypeConnection} : Deref(n, t)
    \/ \E n \in Nodes : ProcessIfNecessary(n, TRUE)

NodeRenderInit == DqInit /\ NodeAtRest /\ RenderAtRest /\ MergerInit /\ LocksFree

NodeRenderSpec == NodeRenderInit /\ [][NodeRenderNext]_vars

LockingInit == DqInit /\ NodeAtRest /\ RenderAtRest /\ MergerInit /\ LocksFree

LockSpec == LockingInit /\ [][LockNext]_vars

MergingInit == DqInit /\ NodeAtRest /\ RenderAtRest /\ MergerInit /\ LocksFree

MergerSpec == MergingInit /\ [][MergerNext]_vars

(***************************************************************************)
(* Properties of the dispatch queue                                        *)
(***************************************************************************)
Occurrences(log, n) == Cardinality({i \in 1..Len(log) : log[i] = n})

Executed == {execLog[i] : i \in 1..Len(execLog)}

\* The (function, context) pair of the cancel that produced this state matches e.
CancelKeyMatches(e) ==
    /\ e.function = lastOp.function
    /\ e.context = lastOp.context

\* C1: the entries that are executed are executed in the order in which they
\* were appended: the log of finished entries is in append order, and when an
\* entry starts to run every finished entry was appended before it and every
\* entry still queued after it.
C1_FifoOrder ==
    /\ \A i, j \in 1..Len(execLog) : i < j => execLog[i] < execLog[j]
    /\ mainPc = "run" =>
          /\ \A i \in 1..Len(execLog) : execLog[i] < invocation.seq
          /\ \A k \in 1..Len(functionQueue) : invocation.seq < functionQueue[k].seq
    /\ \A k, l \in 1..Len(functionQueue) :
          k < l => functionQueue[k].seq < functionQueue[l].seq

\* Two entries have been executed around an entry that was cancelled between them.
C1_Witness ==
    /\ Len(execLog) >= 2
    /\ \E n \in cancelled : execLog[1] < n /\ n < execLog[2]

C3_WaitRoundTrip ==
    /\ lastOp.op = "waitReturn" => Occurrences(execLog, lastOp.seq) = 1
    /\ \A n \in 1..appended : Occurrences(execLog, n) <= 1
    /\ \A w \in Workers :
          workerPc[w] = "woken" => waitSeq[w] \in Executed

\* A waiting call has returned while other entries were executed as well.
C3_Witness ==
    /\ lastOp.op = "waitReturn"
    /\ Len(execLog) >= 2

\* The waiter w's entry has been executed and its signal step is over.
SignalIssuedFor(w) ==
    /\ waitSeq[w] # 0
    /\ waitSeq[w] \in Executed
    /\ ~(mainPc = "signal" /\ invocation.seq = waitSeq[w])

C4_SignalFindsWaiter ==
    /\ mainPc = "signal" => workerPc[invocation.syncFlag] = "waiting"
    /\ \A w \in Workers : SignalIssuedFor(w) => workerPc[w] = "woken"

\* C4: the signal for a waiting entry is issued only while its waiter is
\* waiting on the handle, a waiter whose signal was issued is awake, and
\* every waiter whose entry has been executed eventually returns.
C4_NoLostWakeup ==
    /\ []C4_SignalFindsWaiter
    /\ \A w \in Workers :
          (waitSeq[w] # 0 /\ waitSeq[w] \in Executed) ~> (workerPc[w] = "idle")

\* A waiter has been woken by the signal of its entry.
C4_Witness ==
    \E w \in Workers : workerPc[w] = "woken" /\ SignalIssuedFor(w)

\* C9 as stated: a drain that starts unpaused with a non-empty queue has
\* executed at least one entry when it returns.
C9_Original ==
    (lastOp.op \in {"drainEmpty", "drainYield"} /\ lastOp.drain.startNonEmpty)
        => lastOp.drain.executed >= 1

\* C9 as amended: a drain that finds the queue non-empty when it first takes
\* the queue lock executes at least one entry; the budget is tested only
\* after an entry has finished; no entry is popped or run once the elapsed
\* time exceeds the budget; the drain that stops on the budget leaves the
\* queue as it is and issues a scheduling request.
C9_TimeBoxedDrain ==
    /\ (lastOp.op \in {"drainEmpty", "drainYield"} /\ lastOp.drain.lockNonEmpty)
          => lastOp.drain.executed >= 1
    /\ mainPc = "check" =>
          /\ drain.executed >= 1
          /\ Len(execLog) > 0
          /\ execLog[Len(execLog)] = invocation.seq
    /\ mainPc \in {"pop", "run"} => elapsed <= maxRunLoopSuspensionTime
    /\ lastOp.op = "drainYield" =>
          /\ mainPc = "idle"
          /\ scheduled
          /\ functionQueue = lastOp.before
          /\ lastOp.drain.executed >= 1
          /\ lastOp.seq \in Executed

\* A drain has stopped on the budget with entries left in the queue.
C9_Witness ==
    /\ lastOp.op = "drainYield"
    /\ Len(functionQueue) >= 1
    /\ scheduled

C16_WaitOnMainThread ==
    lastOp.op = "waitOnMain" =>
        /\ lastOp.invoked = << <<lastOp.function, lastOp.context>> >>
        /\ functionQueue = lastOp.before
        /\ scheduled = lastOp.scheduledBefore
        /\ mainPc = lastOp.pcBefore
        /\ mainPc # "waiting"

\* The call has just returned while the callbacks are paused, the queue holds
\* two entries and no scheduling request is outstanding.
C16_Witness ==
    /\ lastOp.op = "waitOnMain"
    /\ Len(lastOp.invoked) = 1
    /\ callbacksPaused
    /\ Len(functionQueue) = 2
    /\ ~scheduled

\* C17: a call of dispatchFunctionsFromMainThread made while the callbacks
\* are paused returns at once: it executes no entry, signals no waiter, issues
\* no scheduling request and leaves the queue, its entries and their order,
\* as it is.
C17_PausedDrainDoesNothing ==
    [][((\E r \in BOOLEAN : DispatchBegin(r)) /\ callbacksPaused) =>
          /\ UNCHANGED <<functionQueue, execLog, workerPc, invocation, callbacksPaused>>
          /\ mainPc' = "idle"
          /\ scheduled' => scheduled]_vars

\* A drain has just returned at once although two entries are queued, one of
\* them with a waiter.
C17_Witness ==
    /\ lastOp.op = "drainPaused"
    /\ callbacksPaused
    /\ mainPc = "idle"
    /\ Len(functionQueue) = 2
    /\ functionQueue = lastOp.before
    /\ \E w \in Workers : workerPc[w] = "waiting"

\* No thread is inside an operation of the queue: no drain is running and no
\* caller is between its push and its scheduling call or its wait.
AtRest ==
    /\ mainPc = "idle"
    /\ \A w \in Workers : workerPc[w] \in {"idle", "waiting"}

\* The queue is not empty, not paused, and no scheduling request is outstanding.
RequestMissing ==
    /\ Len(functionQueue) > 0
    /\ ~callbacksPaused
    /\ ~scheduled

\* Entry k, once queued, is executed or cancelled.
ExecutedOrCancelled(k) ==
    (k \in SeqsOf(functionQueue)) ~> (k \in Executed \/ k \in cancelled)

\* C20: the queue never rests non-empty, unpaused, with no drain running and
\* no scheduling request outstanding; and where the run loop runs a drain for
\* every request and the pause is lifted for good from some time on, every
\* queued entry is executed unless it is cancelled.
C20_NoLostRequest ==
    /\ [](AtRest => ~RequestMissing)
    /\ (<>[]~callbacksPaused) => \A k \in 1..MaxAppends : ExecutedOrCancelled(k)

\* The queue rests with an entry left by a drain that stopped on its budget,
\* and the request of that drain is outstanding.
C20_Witness ==
    /\ AtRest
    /\ lastOp.op = "drainYield"
    /\ Len(functionQueue) > 0
    /\ ~callbacksPaused
    /\ scheduled
    /\ Len(execLog) > 0

\* A drain takes the front entry off the queue.
DrainPopsEntry == DispatchPop /\ functionQueue' # functionQueue

\* C21: while the pause flag is set no drain pops a queued entry, also where
\* the flag was set by the entry the drain has just executed.
C21_Original ==
    [][callbacksPaused => ~DrainPopsEntry]_vars

\* While the pause flag is set no drain pops an entry unless the drain began
\* before the flag was set; a drain that begins while it is set pops nothing.
C21_NoDrainBeginsWhilePaused ==
    [][\A r \in BOOLEAN : (DispatchBegin(r) /\ callbacksPaused) => mainPc' = "idle"]_vars

(***************************************************************************)
(* Properties of the reference counting                                    *)
(***************************************************************************)
\* C5: a deref that leaves both counters of a not yet marked node at zero
\* has, when it returns, disconnected every output of the node and marked the
\* node; the disconnect-and-mark step runs at most once on a node and the
\* mark, once set, stays.
C5_RefcountExhaustion ==
    /\ (/\ lastNodeOp.op = "deref"
        /\ ~lastNodeOp.wasMarked
        /\ normalRefCount[lastNodeOp.node] = 0
        /\ connectionRefCount[lastNodeOp.node] = 0)
          => /\ isMarkedForDeletion[lastNodeOp.node]
             /\ \A o \in 0..(NumberOfOutputs(lastNodeOp.node) - 1) :
                   EdgesOfOutput(NodeState, lastNodeOp.node, o) = {}
    /\ \A n \in Nodes :
          /\ markCount[n] <= 1
          /\ isMarkedForDeletion[n] <=> markCount[n] = 1

\* A deref has just marked a node whose outputs were connected, and no
\* connection is left.
C5_Witness ==
    /\ lastNodeOp.op = "deref"
    /\ ~lastNodeOp.wasMarked
    /\ lastNodeOp.hadOutputs
    /\ isMarkedForDeletion[lastNodeOp.node]
    /\ connections = {}

InvalidConnectCall ==
    \E c \in BOOLEAN, s \in Nodes, o \in OutputIndices, d \in Nodes \cup {NoNode},
       i \in InputIndices :
        /\ \/ ~c
           \/ d = NoNode
           \/ o >= NumberOfOutputs(s)
           \/ (d # NoNode /\ i >= NumberOfInputs(d))
        /\ Connect(c, s, o, d, i)

\* A disconnect call with an absent context or with an index that is too large.
InvalidDisconnectCall ==
    \E c \in BOOLEAN, s \in Nodes, o \in OutputIndices, f \in BOOLEAN :
        /\ ~c \/ o >= NumberOfOutputs(s)
        /\ Disconnect(c, s, o, f)

\* The call has set an error code, the process goes on, and the connections
\* and the reference counters are as before.
ReportedAndUnmodified ==
    /\ ec' \in {"SYNTAX_ERR", "INDEX_SIZE_ERR"}
    /\ ~crashed'
    /\ UNCHANGED <<connections, normalRefCount, connectionRefCount>>

\* C13: every connect call and every disconnect call with an invalid argument
\* (absent context, absent destination, output or input index too large) sets
\* an error code, does not crash and leaves the connections and the reference
\* counters as they were.
C13_Original ==
    [][(InvalidConnectCall \/ InvalidDisconnectCall) => ReportedAndUnmodified]_vars

\* What the code does: the same for every invalid connect call and for a
\* disconnect call whose output index is too large.
C13_InvalidConnectReported == [][InvalidConnectCall => ReportedAndUnmodified]_vars

\* The connections into node d.
Incoming(d) == {e \in connections : e[3] = d}

\* The nodes of S, and the nodes all of whose references are connections from
\* nodes of S: no normal reference, no connection reference held by a caller,
\* and every incoming connection from a node of S.
ReleasedWith(S) ==
    S \cup {d \in Nodes \ S :
              /\ normalRefCount[d] = 0
              /\ heldConnections[d] = 0
              /\ Incoming(d) # {}
              /\ connectionRefCount[d] = Cardinality(Incoming(d))
              /\ \A e \in Incoming(d) : e[1] \in S}

RECURSIVE CascadeFrom(_)
\* The nodes that lose their last reference when the nodes of S are disconnected.
CascadeFrom(S) == IF ReleasedWith(S) = S THEN S ELSE CascadeFrom(ReleasedWith(S))

\* As ReleasedWith, for the nodes that are not marked yet.
ReleasedUnmarkedWith(S) ==
    S \cup {d \in ReleasedWith(S) : ~isMarkedForDeletion[d]}

RECURSIVE UnmarkedCascadeFrom(_)
UnmarkedCascadeFrom(S) ==
    IF ReleasedUnmarkedWith(S) = S THEN S ELSE UnmarkedCascadeFrom(ReleasedUnmarkedWith(S))

\* Node d has no reference left, is marked and has no connected output, and
\* nothing was handed to the dispatch queue.
TornDownInThisStep(d) ==
    /\ normalRefCount'[d] = 0
    /\ connectionRefCount'[d] = 0
    /\ isMarkedForDeletion'[d]
    /\ {e \in connections' : e[1] = d} = {}
    /\ UNCHANGED <<functionQueue, scheduled>>

\* C18: when a deref call marks a node, every node downstream of it whose
\* only references are connections from the marked node, or from nodes torn
\* down in the same way, is dereferenced, disconnected and marked by the time
\* the call returns, and nothing is left to the dispatch queue.
C18_Original ==
    [][\A n \in Nodes, t \in {RefTypeNormal, RefTypeConnection} :
          (Deref(n, t) /\ ~isMarkedForDeletion[n] /\ isMarkedForDeletion'[n]) =>
              \A d \in CascadeFrom({n}) : TornDownInThisStep(d)]_vars

\* C18, amended: the same for the downstream nodes that are not yet marked for
\* deletion when the call is made; a downstream node that is already marked
\* is dereferenced but keeps the connections of its outputs.
C18_CascadeSynchronous ==
    [][\A n \in Nodes, t \in {RefTypeNormal, RefTypeConnection} :
          (Deref(n, t) /\ ~isMarkedForDeletion[n] /\ isMarkedForDeletion'[n]) =>
              \A d \in UnmarkedCascadeFrom({n}) : TornDownInThisStep(d)]_vars

\* One deref call has marked the three nodes of a chain.
C18_Witness ==
    /\ lastNodeOp.op = "deref"
    /\ lastNodeOp.node = 1
    /\ lastNodeOp.marked = {1, 2, 3}
    /\ connections = {}

\* Node n has gained a connection reference in this step, by a ref call or
\* by a connection made to one of its inputs.
GainsConnectionRef(n) == connectionRefCount'[n] = connectionRefCount[n] + 1

\* Node n is not disabled and its outputs are enabled after this step.
EnabledAfter(n) == ~isDisabled'[n] /\ outputEnabled'[n]

\* C22: after a ref of connection type the node is not disabled and its
\* outputs are enabled, and a disabled node has no connection reference.
C22_Original ==
    /\ [][\A n \in Nodes : GainsConnectionRef(n) => EnabledAfter(n)]_vars
    /\ [](\A n \in Nodes : isDisabled[n] => connectionRefCount[n] = 0)

\* C22, amended: after a ref of connection type that leaves the connection
\* count positive the node is not disabled and its outputs are enabled; a
\* disabled node has at most one connection reference, which is the one of
\* a connection into the node and not one taken by a ref call, and its
\* outputs are not enabled.
C22_RefReenables ==
    /\ [][\A n \in Nodes : (GainsConnectionRef(n) /\ connectionRefCount'[n] > 0)
                              => EnabledAfter(n)]_vars
    /\ [](\A n \in Nodes : isDisabled[n] =>
             /\ connectionRefCount[n] <= 1
             /\ ~outputEnabled[n]
             /\ connectionRefCount[n] = 1 =>
                   (heldConnections[n] = 0 /\ Cardinality(Incoming(n)) = 1))

\* A ref of connection type has just re-enabled a disabled node.
C22_Witness ==
    /\ lastNodeOp.op = "ref"
    /\ lastNodeOp.refType = RefTypeConnection
    /\ lastNodeOp.wasDisabled
    /\ ~isDisabled[lastNodeOp.node]
    /\ outputEnabled[lastNodeOp.node]
    /\ connectionRefCount[lastNodeOp.node] > 0

(***************************************************************************)
(* Properties of the per-quantum processing                                *)
(***************************************************************************)
\* C6: a node processes or substitutes silence at most once, and pulls its
\* inputs at most once, at any one time of the render context; and a
\* processIfNecessary call on a node whose last processing time is already
\* the current time changes nothing: no output, no last processing time, no
\* last non-silent time, and no pull.
C6_IdempotentQuantum ==
    /\ \A n \in Nodes : stepsThisQuantum[n] <= 1 /\ pullsThisQuantum[n] <= 1
    /\ (lastRenderOp.op = "processIfNecessary" /\ lastRenderOp.memo) => ~lastRenderOp.changed

\* A second call has just been made on a node that processed at this time.
C6_Witness ==
    /\ lastRenderOp.op = "processIfNecessary"
    /\ lastRenderOp.memo
    /\ stepsThisQuantum[lastRenderOp.node] = 1
    /\ lastStep[lastRenderOp.node] = "process"

\* C7: for a node with latency 0 that has run on non-silent inputs, the last
\* non-silent time is the end of the last quantum in which it ran on
\* non-silent inputs; when it runs on silent inputs it processes (its outputs
\* are marked non-silent) if the current time is at most the last non-silent
\* time plus the tail time, and it substitutes silence if the current time is
\* greater than that.
C7_SilenceHysteresis ==
    \A n \in Nodes :
        (latencyTime[n] = 0 /\ lastLoudEnd[n] # NeverTime) =>
            /\ lastNonSilentTime[n] = lastLoudEnd[n]
            /\ inputsWereSilent[n] =>
                 /\ lastStep[n] = "process" <=>
                        lastProcessingTime[n] <= lastNonSilentTime[n] + tailTime[n]
                 /\ lastStep[n] = "silence" <=>
                        lastProcessingTime[n] > lastNonSilentTime[n] + tailTime[n]
                 /\ outputSilent[n] <=> lastStep[n] = "silence"

\* A node with a tail has run on non-silent inputs, has processed on silent
\* inputs up to the end of its tail, and has now substituted silence.
C7_Witness ==
    \E n \in Nodes :
        /\ latencyTime[n] = 0
        /\ tailTime[n] > 0
        /\ lastLoudEnd[n] # NeverTime
        /\ inputsWereSilent[n]
        /\ lastStep[n] = "silence"
        /\ outputSilent[n]
        /\ lastProcessingTime[n] > lastNonSilentTime[n] + tailTime[n]

\* C14: when a node last ran, it substituted silence if and only if its
\* inputs were all silent after the pull and lastNonSilentTime + latencyTime +
\* tailTime < current time held; otherwise it processed and its outputs are
\* marked not silent.  A processIfNecessary call with a render context on an
\* initialized node that has not run at the current time makes the node run
\* exactly once.
C14_SilenceIffPredicate ==
    /\ \A n \in Nodes :
           lastStep[n] # "none" =>
               LET suppressed ==
                       /\ inputsWereSilent[n]
                       /\ lastNonSilentTime[n] + latencyTime[n] + tailTime[n]
                              < lastProcessingTime[n]
               IN  /\ lastStep[n] = "silence" <=> suppressed
                   /\ lastStep[n] = "process" <=> ~suppressed
                   /\ outputSilent[n] <=> suppressed
    /\ (/\ lastRenderOp.op = "processIfNecessary"
        /\ lastRenderOp.context
        /\ ~lastRenderOp.memo
        /\ isInitialized[lastRenderOp.node]) =>
            /\ stepsThisQuantum[lastRenderOp.node] = 1
            /\ lastProcessingTime[lastRenderOp.node] = currentSampleFrame

\* The first call at this time has just been made on a node with a latency,
\* whose inputs are silent but whose predicate does not hold yet: the node
\* has processed.
C14_Witness ==
    /\ lastRenderOp.op = "processIfNecessary"
    /\ lastRenderOp.context
    /\ ~lastRenderOp.memo
    /\ latencyTime[lastRenderOp.node] > 0
    /\ stepsThisQuantum[lastRenderOp.node] = 1
    /\ inputsWereSilent[lastRenderOp.node]
    /\ lastStep[lastRenderOp.node] = "process"
    /\ ~outputSilent[lastRenderOp.node]

\* The nodes whose output reaches an input of a node of S, directly or through
\* other nodes.
RECURSIVE UpstreamClosure(_)
UpstreamClosure(S) ==
    LET more == S \cup UNION {upstream[m] : m \in S}
    IN  IF more = S THEN S ELSE UpstreamClosure(more)

\* The nodes on a cycle through node n.
CycleOf(n) ==
    {m \in UpstreamClosure(upstream[n]) : n \in UpstreamClosure(upstream[m])}

\* The nodes on a cycle of the graph.
OnCycle == {n \in Nodes : n \in CycleOf(n)}

\* No pass runs out of depth, and no node runs or pulls twice in a quantum.
NoNodeEnteredTwice ==
    /\ ~pullOverflow
    /\ \A n \in Nodes : stepsThisQuantum[n] <= 1 /\ pullsThisQuantum[n] <= 1

\* Every node of the cycle through n has run once in this quantum.
CycleRanOnceAfter(n) ==
    \A m \in CycleOf(n) :
        stepsThisQuantum'[m] = 1 /\ lastProcessingTime'[m] = currentSampleFrame

\* C19: in a graph with a cycle a render pass ends, without the recursion
\* coming back into a node, and after it every node of the cycle has run its
\* processing step or its silence substitution exactly once in the quantum.
C19_Original ==
    /\ []NoNodeEnteredTwice
    /\ [][\A n \in OnCycle : ProcessIfNecessary(n, TRUE) => CycleRanOnceAfter(n)]_vars

\* C19, amended: the same for the first pass of a quantum that reaches the
\* cycle while every node of the cycle is initialized; an uninitialized node
\* does not run and does not pull its inputs.
C19_FeedbackTerminates ==
    /\ []NoNodeEnteredTwice
    /\ [][\A n \in OnCycle :
            (/\ ProcessIfNecessary(n, TRUE)
             /\ \A m \in CycleOf(n) : /\ isInitialized[m]
                                      /\ lastProcessingTime[m] # currentSampleFrame)
                => CycleRanOnceAfter(n)]_vars
    /\ [][\A n \in Nodes, c \in BOOLEAN :
            (ProcessIfNecessary(n, c) /\ ~isInitialized[n]) =>
                UNCHANGED <<stepsThisQuantum, pullsThisQuantum, lastProcessingTime>>]_vars

\* A render pass has just been made on a node of a cycle.
PassOnCycle ==
    /\ lastRenderOp.op = "processIfNecessary"
    /\ lastRenderOp.context
    /\ lastRenderOp.node \in OnCycle

\* A pass on node 3 of the graph with the feedback connection 3 -> 2 has run
\* the nodes 2 and 3 of the cycle, and node 1 that feeds it, once each.
C19_Witness ==
    /\ PassOnCycle
    /\ lastRenderOp.node = 3
    /\ lastRenderOp.changed
    /\ OnCycle = {2, 3}
    /\ \A m \in Nodes : isInitialized[m] /\ stepsThisQuantum[m] = 1
    /\ pullsThisQuantum[2] = 1 /\ pullsThisQuantum[3] = 1

\* A render pass has just been made on a node that is marked for deletion
\* and has no connection reference.
PassOnMarkedNode ==
    /\ lastRenderOp.op = "processIfNecessary"
    /\ lastRenderOp.context
    /\ isMarkedForDeletion[lastRenderOp.node]
    /\ connectionRefCount[lastRenderOp.node] = 0

\* C23: a processIfNecessary call on a node that is marked for deletion and
\* has no connection reference runs no processing step and pulls no input.
C23_Original ==
    PassOnMarkedNode =>
        /\ stepsThisQuantum[lastRenderOp.node] = 0
        /\ pullsThisQuantum[lastRenderOp.node] = 0

(***************************************************************************)
(* Properties of the channel merger                                        *)
(***************************************************************************)
\* The <<input, channel>> pairs of the connected inputs.
ConnectedChannels ==
    {<<i, j>> \in MergerInputs \X (0..(MaxInputChannels + 1)) :
        inputConnected[i] /\ j < inputChannels[i]}

\* The output channel at which the channels of input i start.
OffsetOfInput(i) == Cardinality({c \in ConnectedChannels : c[1] < i})

\* C8: once checkNumberOfChannelsForInput has run after the last connectivity
\* change and the output has taken the count, the output has as many channels
\* as the connected inputs have together, and process copies channel j of
\* connected input i to output channel offset(i) + j, where offset(i) is the
\* number of channels of the connected inputs before i, and copies nothing
\* else; inputs with 2, 1 and 3 channels give 6 output channels.
C8_ChannelMergeCorrectness ==
    (negotiated /\ outputNumberOfChannels = pendingNumberOfChannels) =>
        /\ outputNumberOfChannels = Cardinality(ConnectedChannels)
        /\ lastMergerOp.op = "process" =>
             /\ ~lastMergerOp.zeroed
             /\ ~lastMergerOp.outOfRange
             /\ Len(lastMergerOp.copied) = outputNumberOfChannels
             /\ \A c \in ConnectedChannels :
                    lastMergerOp.copied[OffsetOfInput(c[1]) + c[2] + 1] = c
        /\ (/\ \A i \in MergerInputs : inputConnected[i]
            /\ inputChannels[0] = 2 /\ inputChannels[1] = 1 /\ inputChannels[2] = 3) =>
                /\ outputNumberOfChannels = 6
                /\ lastMergerOp.op = "process" =>
                       lastMergerOp.copied =
                           << <<0, 0>>, <<0, 1>>, <<1, 0>>, <<2, 0>>, <<2, 1>>, <<2, 2>> >>

\* The inputs are connected with 2, 1 and 3 channels, the count has been
\* negotiated and taken by the output, and process has merged the inputs.
C8_Witness ==
    /\ negotiated
    /\ outputNumberOfChannels = pendingNumberOfChannels
    /\ \A i \in MergerInputs : inputConnected[i]
    /\ inputChannels[0] = 2 /\ inputChannels[1] = 1 /\ inputChannels[2] = 3
    /\ lastMergerOp.op = "process"
    /\ ~lastMergerOp.zeroed

\* C15: a process call of the merger made while the desired channel count
\* differs from the count of the output bus zeroes the output and copies no
\* input channel; a process call made while they are equal writes only
\* output channels below the count of the output bus, and writes as many
\* channels as the output bus has.
C15_Original ==
    lastMergerOp.op = "process" =>
        /\ desiredNumberOfOutputChannels # outputNumberOfChannels =>
               lastMergerOp.zeroed /\ lastMergerOp.copied = <<>>
        /\ desiredNumberOfOutputChannels = outputNumberOfChannels =>
               /\ ~lastMergerOp.outOfRange
               /\ Len(lastMergerOp.copied) = outputNumberOfChannels

\* What the code does: silence on a mismatch; and in the merge path the
\* channels of the connected inputs are copied whatever the count of the
\* output bus is.
C15_SilenceOnMismatch ==
    lastMergerOp.op = "process" =>
        /\ desiredNumberOfOutputChannels # outputNumberOfChannels =>
               lastMergerOp.zeroed /\ lastMergerOp.copied = <<>>
        /\ desiredNumberOfOutputChannels = outputNumberOfChannels =>
               Len(lastMergerOp.copied) = Cardinality(ConnectedChannels)

(***************************************************************************)
(* Properties of the lock discipline                                       *)
(***************************************************************************)
\* A reference counter of node n changes in this step.
CounterChanges(n) ==
    \/ normalRefCount'[n] # normalRefCount[n]
    \/ connectionRefCount'[n] # connectionRefCount[n]

\* The channel count of the merger's output changes in this step.
ChannelCountChanges == outputNumberOfChannels' # outputNumberOfChannels

\* The counters of a node change only in a step of the thread that holds the
\* graph lock.
C24_CountersUnderGraphLock ==
    [][\A n \in Nodes : CounterChanges(n) =>
          \E t \in LockThreads, rt \in {RefTypeNormal, RefTypeConnection} :
              /\ graphLock = t
              /\ RefWithGraphLock(t, n, rt) \/ DerefWithGraphLock(t, n, rt)]_vars

\* C24: the channel count of an output and the reference counters of a node
\* change only in a step of a thread that holds the graph lock; the merger's
\* checkNumberOfChannelsForInput applies the new count holding the graph lock.
C24_Original ==
    [][/\ ChannelCountChanges => graphLock # NoThread
       /\ \A t \in LockThreads, atOnce \in BOOLEAN :
             (CheckWithRenderLock(t, atOnce) /\ ChannelCountChanges) => graphLock = t
       /\ \A n \in Nodes : CounterChanges(n) => graphLock # NoThread]_vars

(***************************************************************************)
(* Properties of ref and deref in any order                                *)
(***************************************************************************)
\* C11: whatever ref and deref calls are made, no reference counter is ever
\* negative: a deref of a counter that is zero ends in the failed assertion
\* and does not decrement the counter.
C11_Original ==
    \A n \in Nodes : normalRefCount[n] >= 0 /\ connectionRefCount[n] >= 0

====
